---- MODULE Spec2Model ----
(***************************************************************************)
(* CLAWD wallet: the TAP identity lifecycle (registerAgent,                *)
(* completeVerificationDemo, verifyIdentity, verifyCommand) and the x402   *)
(* payment entry point (paymentRequest).                                   *)
(*                                                                         *)
(* Absent values (undefined, null, a missing file) are the empty sequence  *)
(* <<>>; a present value x is <<x>>.                                       *)
(***************************************************************************)
EXTENDS Integers, Sequences, FiniteSets, TLC

\* ---------------------------------------------------------------- bounds
NumProcs == 2
MaxCalls == 2
MaxTime == 1
NumPayers == 2
MaxAmount == 2

\* ------------------------------------------------------------- constants
CHAIN_ID == 8453

Procs == 1..NumProcs
Times == 0..MaxTime
Absent == <<>>
Present(x) == <<x>>
Get(o) == o[1]

TAPIdentityLevel == {"email", "kyc", "kyb"}

WalletAddress == "0xAbC"
WalletPrivateKey == "wallet-secret"
DEFAULT_REGISTRY_URL == "https://tap-registry.visa.com/v1"

\* String.prototype.toLowerCase on the addresses of the model.
ToLowerCase(s) == IF s = "0xAbC" THEN "0xabc" ELSE s

\* `eip155:${CHAIN_ID}:${walletAddress.toLowerCase()}`
Caip10Address(walletAddress) == <<"eip155", CHAIN_ID, ToLowerCase(walletAddress)>>

\* Buffer.from(privateKey).toString('hex')
ToHex(privateKey) == <<"hex", privateKey>>
\* ed.getPublicKeyAsync(privateKey), then Buffer.from(publicKey).toString('base64')
PublicKeyOf(privateKey) == <<"b64", <<"ed25519-public", privateKey>>>>

\* ethers.Wallet(walletPrivateKey).signMessage(message): the signature names
\* the signing address and the message, never the key.
AddressOf(walletPrivateKey) ==
    IF walletPrivateKey = WalletPrivateKey THEN WalletAddress ELSE "0x0"
SignMessage(walletPrivateKey, message) ==
    <<"sig", AddressOf(walletPrivateKey), message>>

\* JavaScript truthiness of an optional string (error.detail || ...).
Truthy(optString) == optString # Absent /\ Get(optString) # ""

VARIABLES
    now,              \* wall clock (Date.now), in abstract ticks
    keychain,         \* OS secure store: slot name -> optional secret
    agentFile,        \* ~/.clawd/tap/agent.json: optional Agent Identity
    attestationFile,  \* ~/.clawd/tap/attestation.json: optional Attestation
    registry,         \* the TAP registry (external): agents and challenges issued
    entropy,          \* draws taken from the CSPRNG so far
    pc,               \* per call: position in verifyIdentity / verifyCommand
    call,             \* per call: locals of the call in flight
    calls,            \* number of calls started
    limits,           \* config.security: the configured spend limits
    ledger,           \* ~/.clawd/history.json: the spend ledger entries
    lock,             \* holder of the profile's check-then-append scope, 0 if free
    ppc,              \* per payment call: position in paymentRequest
    pay,              \* per payment call: arguments and locals
    xfer              \* the transferUSDC call: position, arguments and locals

tapVars == <<keychain, agentFile, attestationFile, registry, entropy, pc, call, calls>>
payVars == <<limits, ledger, lock, ppc, pay>>
walletVars == <<xfer>>
vars == <<now, tapVars, payVars, walletVars>>

\* ------------------------------------------------------------ HTTP layer
StatusTexts == {"Conflict"}
Details == {Absent, Present(""), Present("wallet already registered")}

\* A fetch() outcome: delivered = FALSE is a transport failure (fetch rejects).
NetworkError == [delivered |-> FALSE, ok |-> FALSE, statusText |-> "", detail |-> Absent]
HttpErrors ==
    {[delivered |-> TRUE, ok |-> FALSE, statusText |-> st, detail |-> d] :
        st \in StatusTexts, d \in Details}
HttpOk == [delivered |-> TRUE, ok |-> TRUE, statusText |-> "OK", detail |-> Absent]
Responses == {NetworkError, HttpOk} \cup HttpErrors

FetchFailedMessage == "fetch failed"

\* `Failed to get challenge: ${response.statusText}`
ChallengeErrorMessage(response) ==
    IF response.statusText = "Conflict" THEN "Failed to get challenge: Conflict"
    ELSE "Failed to get challenge: "

\* error.detail || `Registration failed: ${response.statusText}`
RegistrationErrorMessage_AlwaysFallback(response) ==
    IF response.statusText = "Conflict" THEN "Registration failed: Conflict"
    ELSE "Registration failed: "

RegistrationErrorMessage(response) ==
    IF Truthy(response.detail) THEN Get(response.detail)
    ELSE IF response.statusText = "Conflict" THEN "Registration failed: Conflict"
    ELSE "Registration failed: "

\* error.detail || 'Verification failed'
VerificationErrorMessage(response) ==
    IF Truthy(response.detail) THEN Get(response.detail) ELSE "Verification failed"

\* if (!response.ok) in registerAgent
RegisterResponseOk_Ignored(response) == TRUE

RegisterResponseOk(response) == response.ok

\* if (!response.ok) in completeVerificationDemo
VerifyResponseOk_Ignored(response) == TRUE

VerifyResponseOk(response) == response.ok

\* ------------------------------------------------------ Credential Store
\* TAPKeychain.savePrivateKey: put into the TAP slot of the secure store.
SavePrivateKey(store, hexKey) == [store EXCEPT !["tap"] = Present(hexKey)]

\* TAPCredentialManager.saveAgent(identity, walletAddress, name, registryUrl)
SaveAgent(identity, walletAddress, name, registryUrl) ==
    Present([agentId |-> identity.agentId, keyId |-> identity.keyId,
             publicKey |-> identity.publicKey, registeredAt |-> identity.registeredAt,
             walletAddress |-> walletAddress, name |-> name,
             registryUrl |-> registryUrl])

\* TAPCredentialManager.saveAttestation(attestation)
SaveAttestation(attestation) == Present(attestation)

\* TAPCredentialManager.getStatus(): verified iff an attestation exists and
\* now <= expiresAt, recomputed from the files on every call.
GetStatus ==
    [verified |-> attestationFile # Absent /\ now <= Get(attestationFile).expiresAt,
     agentId |-> IF agentFile = Absent THEN Absent ELSE Present(Get(agentFile).agentId),
     identityLevel |-> IF attestationFile = Absent THEN Absent
                       ELSE Present(Get(attestationFile).identityLevel),
     attestationExpires |-> IF attestationFile = Absent THEN Absent
                            ELSE Present(Get(attestationFile).expiresAt),
     registryUrl |-> IF agentFile = Absent THEN Absent
                     ELSE Present(Get(agentFile).registryUrl)]

\* TAPCredentialManager.isVerified()
IsVerified == GetStatus.verified

\* --------------------------------------------------------------- helpers
NoCall ==
    [kind |-> "none", level |-> "kyc", name |-> "", privateKey |-> 0,
     publicKey |-> Absent, siweMessage |-> Absent, registration |-> Absent,
     identity |-> Absent, verification |-> Absent,
     result |-> Absent, error |-> Absent, sent |-> <<>>, response |-> Absent,
     nSaveAgent |-> 0, nSaveAttestation |-> 0,
     status |-> Absent, lookup |-> Absent, tapStatus |-> Absent,
     reverify |-> FALSE, demo |-> FALSE, effects |-> <<>>, reputation |-> Absent]

Terminal ==
    {"already_verified", "kept", "failed", "verification_failed", "verified",
     "status_done", "complete", "tool_done"}
InFlight(p) == pc[p] \in {"keygen", "challenge", "register", "verify"}
\* One logical operation in flight per verification attempt.
Quiescent == \A q \in Procs : pc[q] = "idle"

DefaultName == "Clawd Agent (0xAbC)"

\* ------------------------------------------------------------ operations
\* if (isVerified) { ... return {status: 'already_verified', ...} }
AlreadyVerifiedReturns_Never(isVerified) == FALSE

AlreadyVerifiedReturns(isVerified) == isVerified

\* MCPTools.verifyIdentity up to the call of registerAgent.
VerifyIdentityStart(p) ==
    /\ pc[p] = "idle"
    /\ calls < MaxCalls
    /\ calls' = calls + 1
    /\ \E level \in TAPIdentityLevel :
        IF AlreadyVerifiedReturns(IsVerified)
        THEN /\ pc' = [pc EXCEPT ![p] = "already_verified"]
             /\ call' = [call EXCEPT ![p] =
                    [NoCall EXCEPT !.kind = "mcp", !.level = level,
                        !.result = Present([success |-> TRUE, status |-> "already_verified",
                                            agentId |-> GetStatus.agentId,
                                            identityLevel |-> GetStatus.identityLevel,
                                            error |-> Absent])]]
        ELSE /\ pc' = [pc EXCEPT ![p] = "keygen"]
             /\ call' = [call EXCEPT ![p] =
                    [NoCall EXCEPT !.kind = "mcp", !.level = level, !.name = DefaultName]]
    /\ UNCHANGED <<now, keychain, agentFile, attestationFile, registry, entropy, payVars, walletVars>>

\* verifyCommand up to the call of registerAgent; reverify is the user's
\* answer to the re-verify prompt.
VerifyCommandStart(p) ==
    /\ pc[p] = "idle"
    /\ calls < MaxCalls
    /\ calls' = calls + 1
    /\ \E level \in TAPIdentityLevel, reverify \in BOOLEAN :
        IF IsVerified /\ ~reverify
        THEN /\ pc' = [pc EXCEPT ![p] = "kept"]
             /\ call' = [call EXCEPT ![p] = [NoCall EXCEPT !.kind = "cli", !.level = level]]
        ELSE /\ pc' = [pc EXCEPT ![p] = "keygen"]
             /\ call' = [call EXCEPT ![p] =
                    [NoCall EXCEPT !.kind = "cli", !.level = level, !.name = DefaultName,
                                   !.reverify = IsVerified /\ reverify]]
    /\ UNCHANGED <<now, keychain, agentFile, attestationFile, registry, entropy, payVars, walletVars>>

\* TAPRegistry.generateKeyPair: a fresh private key from the CSPRNG (draws
\* never repeat) and its public key.
generateKeyPair_Reused(drawn) == [privateKey |-> 1, publicKey |-> PublicKeyOf(1)]

generateKeyPair(drawn) ==
    [privateKey |-> drawn + 1, publicKey |-> PublicKeyOf(drawn + 1)]

\* registerAgent: generate the key pair and store the private key.
RegisterAgentKey(p) ==
    /\ pc[p] = "keygen"
    /\ LET kp == generateKeyPair(entropy) IN
        /\ entropy' = entropy + 1
        /\ keychain' = SavePrivateKey(keychain, ToHex(kp.privateKey))
        /\ call' = [call EXCEPT ![p].privateKey = kp.privateKey,
                                ![p].publicKey = Present(kp.publicKey)]
    /\ pc' = [pc EXCEPT ![p] = "challenge"]
    /\ UNCHANGED <<now, agentFile, attestationFile, registry, calls, payVars, walletVars>>

\* The thrown error reaches the caller: verifyIdentity returns
\* {success: false, error}, verifyCommand fails the spinner and exits 1.
Throw_Rejects(p, message) == [call[p] EXCEPT !.error = Present(message)]

Throw(p, message) ==
    [call[p] EXCEPT !.error = Present(message),
                    !.result = Present([success |-> FALSE, status |-> "error",
                                        agentId |-> Absent, identityLevel |-> Absent,
                                        error |-> Present(message)])]

ChallengeRequest(walletAddress) ==
    [endpoint |-> "/v1/challenge",
     body |-> [wallet_address |-> Caip10Address(walletAddress), chain_id |-> CHAIN_ID]]

\* TAPRegistry.getChallenge as called by registerAgent.
GetChallenge(p) ==
    /\ pc[p] = "challenge"
    /\ \E response \in Responses :
        LET request == ChallengeRequest(WalletAddress)
            sent == Append(call[p].sent, request)
            message == <<"siwe", Caip10Address(WalletAddress), registry.challenges + 1>>
        IN
        IF ~response.delivered
        THEN /\ call' = [call EXCEPT ![p] = [Throw(p, FetchFailedMessage) EXCEPT !.sent = sent, !.response = Present(response)]]
             /\ pc' = [pc EXCEPT ![p] = "failed"]
             /\ UNCHANGED registry
        ELSE IF ~response.ok
        THEN /\ call' = [call EXCEPT ![p] =
                    [Throw(p, ChallengeErrorMessage(response)) EXCEPT !.sent = sent, !.response = Present(response)]]
             /\ pc' = [pc EXCEPT ![p] = "failed"]
             /\ UNCHANGED registry
        ELSE /\ registry' = [registry EXCEPT !.challenges = @ + 1]
             /\ call' = [call EXCEPT ![p].sent = sent, ![p].response = Present(response), ![p].siweMessage = Present(message)]
             /\ pc' = [pc EXCEPT ![p] = "register"]
    /\ UNCHANGED <<now, keychain, agentFile, attestationFile, entropy, calls, payVars, walletVars>>

RegisterWalletRequest_KeyAsName(walletAddress, name, publicKey, walletSignature, siweMessage) ==
    [endpoint |-> "/v1/agents/register-wallet",
     body |-> [wallet_address |-> Caip10Address(walletAddress), name |-> WalletPrivateKey,
               public_key |-> publicKey, algorithm |-> "ed25519",
               wallet_signature |-> walletSignature, wallet_message |-> siweMessage]]

RegisterWalletRequest(walletAddress, name, publicKey, walletSignature, siweMessage) ==
    [endpoint |-> "/v1/agents/register-wallet",
     body |-> [wallet_address |-> Caip10Address(walletAddress), name |-> name,
               public_key |-> publicKey, algorithm |-> "ed25519",
               wallet_signature |-> walletSignature, wallet_message |-> siweMessage]]

\* The TAPRegistrationResponse the registry returns for its n-th agent.
RegistrationData(n) ==
    [agent |-> [id |-> <<"agent", n>>, keys |-> <<[key_id |-> <<"key", n>>]>>],
     verification_url |-> <<"verify-url", n>>]

\* registerAgent from the wallet signature to its return.
RegisterWallet(p) ==
    /\ pc[p] = "register"
    /\ \E response \in Responses :
        LET siweMessage == Get(call[p].siweMessage)
            publicKey == Get(call[p].publicKey)
            walletSignature == SignMessage(WalletPrivateKey, siweMessage)
            request == RegisterWalletRequest(WalletAddress, call[p].name, publicKey,
                                             walletSignature, siweMessage)
            sent == Append(call[p].sent, request)
            accepted == response.delivered /\ response.ok
            n == Len(registry.agents) + 1
            data == RegistrationData(IF accepted THEN n ELSE 0)
        IN
        /\ registry' = IF accepted
                       THEN [registry EXCEPT !.agents =
                                Append(@, [id |-> data.agent.id, public_key |-> publicKey,
                                           wallet_address |-> request.body.wallet_address])]
                       ELSE registry
        /\ IF ~response.delivered
           THEN /\ call' = [call EXCEPT ![p] =
                        [Throw(p, FetchFailedMessage) EXCEPT !.sent = sent, !.response = Present(response)]]
                /\ pc' = [pc EXCEPT ![p] = "failed"]
                /\ UNCHANGED agentFile
           ELSE IF ~RegisterResponseOk(response)
           THEN /\ call' = [call EXCEPT ![p] =
                        [Throw(p, RegistrationErrorMessage(response)) EXCEPT !.sent = sent, !.response = Present(response)]]
                /\ pc' = [pc EXCEPT ![p] = "failed"]
                /\ UNCHANGED agentFile
           ELSE /\ agentFile' = SaveAgent(
                        [agentId |-> data.agent.id, keyId |-> data.agent.keys[1].key_id,
                         publicKey |-> publicKey, registeredAt |-> now],
                        Caip10Address(WalletAddress), call[p].name, DEFAULT_REGISTRY_URL)
                /\ call' = [call EXCEPT ![p].sent = sent, ![p].response = Present(response),
                                        ![p].nSaveAgent = @ + 1,
                                        ![p].registration =
                                            Present([agentId |-> data.agent.id,
                                                     verificationUrl |-> data.verification_url,
                                                     keyId |-> data.agent.keys[1].key_id,
                                                     publicKey |-> publicKey])]
                /\ pc' = [pc EXCEPT ![p] = "verify"]
    /\ UNCHANGED <<now, keychain, attestationFile, entropy, calls, payVars, walletVars>>

VerifyDemoRequest(agentId, level) ==
    [endpoint |-> "/v1/agents/{agentId}/verify-demo",
     body |-> [agentId |-> agentId, level |-> level]]

\* The identity block of a VerifyDemoResponse: the registry signs a token for
\* the agent named in the URL; level and validity period are the registry's.
VerifyDemoIdentities(agentId) ==
    {[level |-> lv, attestation_jwt |-> <<"jwt", agentId, lv>>,
      issued_at |-> now, expires_at |-> ex] :
        lv \in TAPIdentityLevel, ex \in Times}

\* const attestation: TAPAttestation = {...} in completeVerificationDemo
BuildAttestation(identity, registryUrl) ==
    [identityLevel |-> identity.level, attestationJwt |-> identity.attestation_jwt,
     issuedAt |-> identity.issued_at, expiresAt |-> identity.expires_at,
     issuer |-> registryUrl]

\* The agent the callers complete: registration.agentId, the value registerAgent
\* returned.
CompletionAgentId_KeyId(registration) == registration.keyId

CompletionAgentId(registration) == registration.agentId

\* What verifyCommand does outside the registry and the stores.
OpenEffect(url) == [effect |-> "open", url |-> url]
WaitEffect == [effect |-> "wait", ms |-> 2000]
AuditEvent(agentId, level, mode) ==
    [effect |-> "tap_verified", agentId |-> agentId, level |-> level, mode |-> mode]

\* The production path of verifyCommand (options.demo and CLAWD_TAP_DEMO
\* unset, read when registerAgent has returned) up to its completion call:
\* open the verification URL, then wait.
OpenVerificationUrl(p) ==
    /\ pc[p] = "verify"
    /\ call[p].kind = "cli"
    /\ call[p].effects = <<>>
    /\ call' = [call EXCEPT ![p].effects =
                    <<OpenEffect(Get(call[p].registration).verificationUrl), WaitEffect>>]
    /\ UNCHANGED <<now, keychain, agentFile, attestationFile, registry, entropy, pc,
                   calls, payVars, walletVars>>

\* The path verifyCommand is on when it calls completeVerificationDemo: the
\* demo path unless it went through the production path's open and wait.
OnDemoPath(locals) == locals.kind = "cli" /\ locals.effects = <<>>

\* The completion request of a path: every caller, the production path of
\* verifyCommand included, completes through completeVerificationDemo.
CompletionRequest_OAuthEndpoint(oauth, agentId, level) ==
    IF oauth
    THEN [endpoint |-> "/v1/agents/{agentId}/verify",
          body |-> [agentId |-> agentId, level |-> level]]
    ELSE VerifyDemoRequest(agentId, level)

CompletionRequest(oauth, agentId, level) == VerifyDemoRequest(agentId, level)

\* TAPRegistry.completeVerificationDemo(registration.agentId, level) and the
\* caller's handling of its result.
CompleteVerificationDemo(p) ==
    /\ pc[p] = "verify"
    /\ \E response \in Responses :
        LET agentId == CompletionAgentId(Get(call[p].registration))
            level == call[p].level
            sent == Append(call[p].sent,
                           CompletionRequest(call[p].kind = "cli" /\ ~OnDemoPath(call[p]),
                                             agentId, level))
            demo == OnDemoPath(call[p])
        IN
        IF ~response.delivered
        THEN /\ call' = [call EXCEPT ![p] =
                    [Throw(p, FetchFailedMessage) EXCEPT !.sent = sent, !.response = Present(response),
                                                         !.demo = demo]]
             /\ pc' = [pc EXCEPT ![p] = "failed"]
             /\ UNCHANGED attestationFile
        ELSE IF ~VerifyResponseOk(response)
        THEN /\ call' = [call EXCEPT ![p].sent = sent, ![p].response = Present(response),
                    ![p].demo = demo,
                    ![p].verification = Present([status |-> "failed",
                                                 error |-> VerificationErrorMessage(response)]),
                    ![p].result = Present([success |-> FALSE, status |-> "error",
                                           agentId |-> Absent, identityLevel |-> Absent,
                                           error |-> Present(VerificationErrorMessage(response))])]
             /\ pc' = [pc EXCEPT ![p] = "verification_failed"]
             /\ UNCHANGED attestationFile
        ELSE \E identity \in VerifyDemoIdentities(agentId) :
             /\ attestationFile' =
                    SaveAttestation(BuildAttestation(identity, DEFAULT_REGISTRY_URL))
             /\ call' = [call EXCEPT ![p].sent = sent, ![p].response = Present(response),
                    ![p].demo = demo,
                    ![p].nSaveAttestation = @ + 1,
                    ![p].identity = Present(identity),
                    ![p].verification = Present([status |-> "verified", error |-> ""]),
                    ![p].result = Present([success |-> TRUE, status |-> "verified",
                                           agentId |-> Present(agentId),
                                           identityLevel |-> Present(level),
                                           error |-> Absent])]
             /\ pc' = [pc EXCEPT ![p] = "verified"]
    /\ UNCHANGED <<now, keychain, agentFile, registry, entropy, calls, payVars, walletVars>>

\* The mode verifyCommand records in its audit event.
AuditMode(demo) == IF demo THEN "demo" ELSE "oauth"

\* await AuditLogger.logAction('tap_verified', {agentId, level, mode}) in
\* verifyCommand; a rejected call lands in the catch of the command.
LogVerified(p) ==
    /\ pc[p] = "verified"
    /\ call[p].kind = "cli"
    /\ \/ /\ call' = [call EXCEPT ![p].effects =
                        Append(@, AuditEvent(Get(call[p].registration).agentId,
                                             call[p].level, AuditMode(call[p].demo)))]
          /\ pc' = [pc EXCEPT ![p] = "display"]
       \/ /\ call' = [call EXCEPT ![p] = Throw(p, "audit log unavailable")]
          /\ pc' = [pc EXCEPT ![p] = "failed"]
    /\ UNCHANGED <<now, keychain, agentFile, attestationFile, registry, entropy,
                   calls, payVars, walletVars>>

\* const status = await TAPCredentialManager.getStatus() and the summary
\* verifyCommand prints; a rejected getStatus lands in the catch.
DisplayStatus(p) ==
    /\ pc[p] = "display"
    /\ \/ /\ call' = [call EXCEPT ![p].status = Present(GetStatus)]
          /\ pc' = [pc EXCEPT ![p] = "complete"]
       \/ /\ call' = [call EXCEPT ![p] = Throw(p, "status unavailable")]
          /\ pc' = [pc EXCEPT ![p] = "failed"]
    /\ UNCHANGED <<now, keychain, agentFile, attestationFile, registry, entropy,
                   calls, payVars, walletVars>>

\* --------------------------------------------------------- status queries
VerifyRequest(walletAddress, attestation) ==
    [endpoint |-> "/v1/verify",
     body |-> [wallet_address |-> walletAddress, attestation |-> attestation]]

\* Bodies of a 2xx answer of the verify endpoint (VerifyResponse).
VerifyDatas ==
    {[valid |-> FALSE, error |-> Present("attestation revoked"),
      identity_level |-> Absent, reputation_score |-> Absent],
     [valid |-> TRUE, error |-> Absent,
      identity_level |-> Present("kyc"), reputation_score |-> Absent],
     [valid |-> TRUE, error |-> Absent,
      identity_level |-> Present("kyc"), reputation_score |-> Present(50)]}

\* `Verification failed: ${response.statusText}`
VerifyAgentErrorMessage(response) ==
    IF response.statusText = "Conflict" THEN "Verification failed: Conflict"
    ELSE "Verification failed: "

\* TAPRegistry.verifyAgent: how the call ends for a fetch outcome. The fetch is
\* awaited outside any try block, so a rejected fetch rejects verifyAgent.
VerifyAgent(response, data) ==
    IF ~response.delivered
    THEN [thrown |-> TRUE, valid |-> FALSE, error |-> Present(FetchFailedMessage),
          identityLevel |-> Absent, reputationScore |-> Absent]
    ELSE IF ~response.ok
    THEN [thrown |-> FALSE, valid |-> FALSE,
          error |-> Present(VerifyAgentErrorMessage(response)),
          identityLevel |-> Absent, reputationScore |-> Absent]
    ELSE IF ~data.valid
    THEN [thrown |-> FALSE, valid |-> FALSE, error |-> data.error,
          identityLevel |-> Absent, reputationScore |-> Absent]
    ELSE [thrown |-> FALSE, valid |-> TRUE, error |-> Absent,
          identityLevel |-> data.identity_level,
          reputationScore |-> data.reputation_score]

\* TAPRegistry.getReputation after its verifyAgent call: null when the call
\* threw (catch) or answered invalid, else the reputation record with
\* reputationScore: result.reputationScore || 0.
GetReputation_IgnoresValid(lookup) ==
    IF lookup.thrown THEN Absent
    ELSE Present([totalTransactions |-> 0, uniqueMerchants |-> 0, disputeRate |-> 0,
                  reputationScore |-> IF lookup.reputationScore = Absent THEN 0
                                      ELSE Get(lookup.reputationScore)])

GetReputation(lookup) ==
    IF lookup.thrown \/ ~lookup.valid THEN Absent
    ELSE Present([totalTransactions |-> 0, uniqueMerchants |-> 0, disputeRate |-> 0,
                  reputationScore |-> IF lookup.reputationScore = Absent THEN 0
                                      ELSE Get(lookup.reputationScore)])

\* reputation?.reputationScore
ReputationScoreOf(reputation) ==
    IF reputation = Absent THEN Absent ELSE Present(Get(reputation).reputationScore)

\* The status record a status query hands back (getTapStatus: the returned
\* object; tapStatusCommand: the lines it prints, success = it did not exit 1).
TapStatusResult_VerifiedByLevel(status, reputationScore) ==
    Present([success |-> TRUE, verified |-> status.identityLevel # Absent,
             agentId |-> status.agentId, identityLevel |-> status.identityLevel,
             reputationScore |-> reputationScore,
             attestationExpires |-> status.attestationExpires,
             registryUrl |-> status.registryUrl, message |-> ""])

TapStatusResult(status, reputationScore) ==
    Present([success |-> TRUE, verified |-> status.verified,
             agentId |-> status.agentId, identityLevel |-> status.identityLevel,
             reputationScore |-> reputationScore,
             attestationExpires |-> status.attestationExpires,
             registryUrl |-> status.registryUrl, message |-> ""])

\* getTapStatus when the profile is neither verified nor registered.
NotVerifiedResult ==
    Present([success |-> TRUE, verified |-> FALSE, agentId |-> Absent,
             identityLevel |-> Absent, reputationScore |-> Absent,
             attestationExpires |-> Absent, registryUrl |-> Absent,
             message |-> "Not verified"])

\* tapStatusCommand's outer catch: spinner.fail('Failed to load TAP status'),
\* process.exit(1).
StatusCommandFailed ==
    Present([success |-> FALSE, verified |-> FALSE, agentId |-> Absent,
             identityLevel |-> Absent, reputationScore |-> Absent,
             attestationExpires |-> Absent, registryUrl |-> Absent,
             message |-> "Failed to load TAP status"])

\* try { ... } catch { /* Silently fail reputation lookup */ } around the
\* lookup of tapStatusCommand: whether the command goes on after the lookup.
LookupSwallowed_NoCatch(thrown) == ~thrown

LookupSwallowed(thrown) == TRUE

\* tapStatusCommand when the profile is not configured.
NotConfiguredResult ==
    Present([success |-> TRUE, verified |-> FALSE, agentId |-> Absent,
             identityLevel |-> Absent, reputationScore |-> Absent,
             attestationExpires |-> Absent, registryUrl |-> Absent,
             message |-> "Not configured"])

\* TAPCredentialManager.isConfigured()
IsConfigured == agentFile # Absent

\* The fetch outcomes of a verify request: the body matters on a 2xx only.
VerifyOutcomes ==
    {<<response, data>> \in Responses \X VerifyDatas :
        (response.delivered /\ response.ok) \/ ~data.valid}

\* The catch of a tool: return {success: false, error: error.message}.
ToolFailure(message) ==
    Present([success |-> FALSE, verified |-> FALSE, agentId |-> Absent,
             identityLevel |-> Absent, reputationScore |-> Absent,
             attestationExpires |-> Absent, registryUrl |-> Absent,
             message |-> message])

\* MCPTools.getTapStatus up to the reputation lookup; getStatus may throw.
GetTapStatusStart(p) ==
    /\ pc[p] = "idle"
    /\ calls < MaxCalls
    /\ calls' = calls + 1
    /\ LET status == GetStatus
           started == [NoCall EXCEPT !.kind = "mcp_status", !.status = Present(status)]
       IN
       \/ /\ pc' = [pc EXCEPT ![p] = "status_done"]
          /\ call' = [call EXCEPT ![p] =
                    [NoCall EXCEPT !.kind = "mcp_status",
                                   !.error = Present("status unavailable"),
                                   !.tapStatus = ToolFailure("status unavailable")]]
       \/ IF ~status.verified /\ status.agentId = Absent
          THEN /\ pc' = [pc EXCEPT ![p] = "status_done"]
               /\ call' = [call EXCEPT ![p] = [started EXCEPT !.tapStatus = NotVerifiedResult]]
          ELSE IF status.verified /\ status.agentId # Absent
          THEN /\ pc' = [pc EXCEPT ![p] = "reputation"]
               /\ call' = [call EXCEPT ![p] = started]
          ELSE /\ pc' = [pc EXCEPT ![p] = "status_done"]
               /\ call' = [call EXCEPT ![p] =
                       [started EXCEPT !.tapStatus = TapStatusResult(status, Absent)]]
    /\ UNCHANGED <<now, keychain, agentFile, attestationFile, registry, entropy, payVars, walletVars>>

\* getTapStatus: registry.getReputation(status.agentId) inside its try block,
\* and the return of the status object.
GetTapStatusReputation(p) ==
    /\ pc[p] = "reputation"
    /\ call[p].kind = "mcp_status"
    /\ LET status == Get(call[p].status) IN
       IF agentFile = Absent \/ attestationFile = Absent
       THEN call' = [call EXCEPT ![p].reputation = Present(Absent),
                                 ![p].tapStatus = TapStatusResult(status, Absent)]
       ELSE \E outcome \in VerifyOutcomes :
            LET request == VerifyRequest(Get(agentFile).walletAddress,
                                         Get(attestationFile).attestationJwt)
                lookup == VerifyAgent(outcome[1], outcome[2])
                reputation == GetReputation(lookup)
            IN call' = [call EXCEPT
                    ![p].sent = Append(@, request),
                    ![p].response = Present(outcome[1]),
                    ![p].lookup = Present(lookup),
                    ![p].reputation = Present(reputation),
                    ![p].tapStatus = TapStatusResult(status, ReputationScoreOf(reputation))]
    /\ pc' = [pc EXCEPT ![p] = "status_done"]
    /\ UNCHANGED <<now, keychain, agentFile, attestationFile, registry, entropy, calls, payVars, walletVars>>

\* TAPRegistry.getReputation(agentId) called on its own: null without a
\* request when a record is missing, else the outcome of its verifyAgent call.
GetReputationCall(p) ==
    /\ pc[p] = "idle"
    /\ calls < MaxCalls
    /\ calls' = calls + 1
    /\ LET started == [NoCall EXCEPT !.kind = "reputation"] IN
       IF agentFile = Absent \/ attestationFile = Absent
       THEN call' = [call EXCEPT ![p] = [started EXCEPT !.reputation = Present(Absent)]]
       ELSE \E outcome \in VerifyOutcomes :
            LET request == VerifyRequest(Get(agentFile).walletAddress,
                                         Get(attestationFile).attestationJwt)
                lookup == VerifyAgent(outcome[1], outcome[2])
            IN call' = [call EXCEPT ![p] =
                    [started EXCEPT !.sent = <<request>>,
                                    !.response = Present(outcome[1]),
                                    !.lookup = Present(lookup),
                                    !.reputation = Present(GetReputation(lookup))]]
    /\ pc' = [pc EXCEPT ![p] = "status_done"]
    /\ UNCHANGED <<now, keychain, agentFile, attestationFile, registry, entropy, payVars, walletVars>>

\* tapStatusCommand up to the reputation lookup: not configured, not verified,
\* or the verified block down to the expiry line.
TapStatusCommandStart(p) ==
    /\ pc[p] = "idle"
    /\ calls < MaxCalls
    /\ calls' = calls + 1
    /\ LET status == GetStatus
           started == [NoCall EXCEPT !.kind = "cli_status", !.status = Present(status)]
       IN
       IF ~IsConfigured
       THEN /\ pc' = [pc EXCEPT ![p] = "status_done"]
            /\ call' = [call EXCEPT ![p] =
                    [NoCall EXCEPT !.kind = "cli_status", !.tapStatus = NotConfiguredResult]]
       ELSE IF status.verified
       THEN /\ pc' = [pc EXCEPT ![p] = "reputation"]
            /\ call' = [call EXCEPT ![p] = started]
       ELSE /\ pc' = [pc EXCEPT ![p] = "status_done"]
            /\ call' = [call EXCEPT ![p] =
                    [started EXCEPT !.tapStatus =
                        Present([success |-> TRUE, verified |-> FALSE,
                                 agentId |-> status.agentId, identityLevel |-> Absent,
                                 reputationScore |-> Absent, attestationExpires |-> Absent,
                                 registryUrl |-> Absent, message |-> "Not verified"])]]
    /\ UNCHANGED <<now, keychain, agentFile, attestationFile, registry, entropy, payVars, walletVars>>

\* tapStatusCommand: the reputation lookup inside its try block (a thrown
\* verifyAgent is caught), the registry line and the end of the command. The
\* reputation is printed when the answer is valid and carries a score.
TapStatusCommandReputation(p) ==
    /\ pc[p] = "reputation"
    /\ call[p].kind = "cli_status"
    /\ LET status == Get(call[p].status) IN
       IF agentFile = Absent \/ attestationFile = Absent
       THEN call' = [call EXCEPT ![p].tapStatus = TapStatusResult(status, Absent)]
       ELSE \E outcome \in VerifyOutcomes :
            LET request == VerifyRequest(Get(agentFile).walletAddress,
                                         Get(attestationFile).attestationJwt)
                verification == VerifyAgent(outcome[1], outcome[2])
                shown == IF ~verification.thrown /\ verification.valid
                         THEN verification.reputationScore ELSE Absent
            IN call' = [call EXCEPT
                    ![p].sent = Append(@, request),
                    ![p].response = Present(outcome[1]),
                    ![p].lookup = Present(verification),
                    ![p].tapStatus = IF LookupSwallowed(verification.thrown)
                                     THEN TapStatusResult(status, shown)
                                     ELSE StatusCommandFailed]
    /\ pc' = [pc EXCEPT ![p] = "status_done"]
    /\ UNCHANGED <<now, keychain, agentFile, attestationFile, registry, entropy, calls, payVars, walletVars>>

\* ---------------------------------------------------------- other tools
\* checkBalance, getAddress, transactionHistory, discoverServices: each awaits
\* its collaborators inside one try block and returns their value, or the
\* message of what they threw.
SimpleTools ==
    [checkBalance |-> {"ConfigManager.loadConfig", "WalletManager.loadFromKeychain",
                       "BalanceChecker.getBalance"},
     getAddress |-> {"ConfigManager.loadConfig"},
     transactionHistory |-> {"TransactionHistory.getHistory"},
     discoverServices |-> {"ServiceDiscovery.discoverServices"}]

SimpleToolCall(p) ==
    /\ pc[p] = "idle"
    /\ calls < MaxCalls
    /\ calls' = calls + 1
    /\ \E tool \in DOMAIN SimpleTools :
        LET started == [NoCall EXCEPT !.kind = tool] IN
        \/ call' = [call EXCEPT ![p] =
                [started EXCEPT !.result =
                    Present([success |-> TRUE, status |-> tool, agentId |-> Absent,
                             identityLevel |-> Absent, error |-> Absent])]]
        \/ \E thrower \in SimpleTools[tool] :
            call' = [call EXCEPT ![p] =
                [Throw(p, thrower) EXCEPT !.kind = tool]]
    /\ pc' = [pc EXCEPT ![p] = "tool_done"]
    /\ UNCHANGED <<now, keychain, agentFile, attestationFile, registry, entropy, payVars, walletVars>>

\* ------------------------------------------------------------- payments
Payers == 1..NumPayers
\* A caller's maxAmount: absent, or a number (0 and negatives included).
MaxAmountArgs == {Absent} \cup {Present(a) : a \in -1..MaxAmount}
\* The amount a 402 challenge demands.
RequiredAmounts == 1..MaxAmount

LimitConfigs ==
    [maxTransactionAmount : {1, 2}, dailyLimit : {3}, autoApproveUnder : {1}]

\* The rolling 24 hours of the daily limit, in ticks of the clock.
WindowTicks == 1

RECURSIVE SumApproved(_, _)
SumApproved(entries, since) ==
    IF entries = <<>> THEN 0
    ELSE (IF Head(entries).status = "approved" /\ Head(entries).timestamp > since
          THEN Head(entries).amount ELSE 0) + SumApproved(Tail(entries), since)

\* Daily cumulative spend: approved entries of the rolling window.
DailyTotal == SumApproved(ledger, now - WindowTicks)

\* SpendLimits.validateTransaction(amount) -> {valid, errors, autoApprove}
ValidateTransaction(amount) ==
    LET errors ==
            IF amount <= 0 THEN <<"amount must be positive">>
            ELSE (IF amount > limits.maxTransactionAmount
                  THEN <<"exceeds per-transaction limit">> ELSE <<>>)
                 \o (IF DailyTotal + amount > limits.dailyLimit
                     THEN <<"would exceed daily limit">> ELSE <<>>)
    IN [valid |-> errors = <<>>, errors |-> errors,
        autoApprove |-> errors = <<>> /\ amount <= limits.autoApproveUnder]

\* validation.errors.join(', ')
JoinErrors(errors) ==
    IF errors = <<"amount must be positive">> THEN "amount must be positive"
    ELSE IF errors = <<"exceeds per-transaction limit">> THEN "exceeds per-transaction limit"
    ELSE IF errors = <<"would exceed daily limit">> THEN "would exceed daily limit"
    ELSE IF errors = <<"exceeds per-transaction limit", "would exceed daily limit">>
    THEN "exceeds per-transaction limit, would exceed daily limit"
    ELSE ""

\* if (!validation.valid) in paymentRequest
ValidationRejected_UnlessAutoApprove(validation) == ~validation.autoApprove

ValidationRejected(validation) == ~validation.valid

\* if (maxAmount): JavaScript truthiness of an optional number.
MaxAmountGiven(maxAmount) == maxAmount # Absent /\ Get(maxAmount) # 0

\* Outcomes of the first request: a plain answer, a transport failure, or a
\* 402 challenge demanding an amount.
FirstResponses ==
    {[kind |-> "ok", amount |-> 0], [kind |-> "neterr", amount |-> 0]}
        \cup {[kind |-> "402", amount |-> a] : a \in RequiredAmounts}

NoPayment ==
    [maxAmount |-> Absent, validated |-> FALSE, checkedTotal |-> Absent,
     initialized |-> FALSE, executed |-> FALSE, requests |-> 0, proofs |-> <<>>,
     required |-> Absent, recorded |-> FALSE, result |-> Absent]

Failure(message) == Present([success |-> FALSE, error |-> message, paid |-> 0])
Success(paid) == Present([success |-> TRUE, error |-> "", paid |-> paid])

\* return result: whatever executePayment returned ends paymentRequest; the
\* handler is called once per paymentRequest.
AfterExecutePayment_AgainOnFailure(result) ==
    IF Get(result).success THEN "done" ELSE "execute"

AfterExecutePayment(result) == "done"

\* MCPTools.paymentRequest: the limit check on the declared maximum. Calls are
\* numbered in the order in which they start.
PaymentRequestValidate(q) ==
    /\ ppc[q] = "idle"
    /\ \A earlier \in 1..(q - 1) : ppc[earlier] # "idle"
    /\ \E maxAmount \in MaxAmountArgs :
        IF MaxAmountGiven(maxAmount)
        THEN LET validation == ValidateTransaction(Get(maxAmount)) IN
             IF ValidationRejected(validation)
             THEN /\ pay' = [pay EXCEPT ![q] =
                        [NoPayment EXCEPT !.maxAmount = maxAmount, !.validated = TRUE,
                                          !.result = Failure(JoinErrors(validation.errors))]]
                  /\ ppc' = [ppc EXCEPT ![q] = "done"]
             ELSE /\ pay' = [pay EXCEPT ![q] =
                        [NoPayment EXCEPT !.maxAmount = maxAmount, !.validated = TRUE,
                                          !.checkedTotal = Present(DailyTotal)]]
                  /\ ppc' = [ppc EXCEPT ![q] = "execute"]
        ELSE /\ pay' = [pay EXCEPT ![q] = [NoPayment EXCEPT !.maxAmount = maxAmount]]
             /\ ppc' = [ppc EXCEPT ![q] = "execute"]
    /\ UNCHANGED <<now, tapVars, walletVars, limits, ledger, lock>>

\* new PaymentHandler(); await handler.initialize() (loads the wallet, or
\* throws), then handler.executePayment(url, method, body, description): the
\* unauthenticated first request. The caller's maxAmount is not among the
\* arguments of executePayment.
ExecutePaymentRequest(q) ==
    /\ ppc[q] = "execute"
    /\ \E loaded \in BOOLEAN, outcome \in FirstResponses :
        IF ~loaded
        THEN /\ outcome.kind = "ok"
             /\ pay' = [pay EXCEPT ![q].result = Failure("No wallet found")]
             /\ ppc' = [ppc EXCEPT ![q] = "done"]
        ELSE IF outcome.kind = "ok"
        THEN /\ pay' = [pay EXCEPT ![q].initialized = TRUE, ![q].executed = TRUE,
                                   ![q].requests = @ + 1, ![q].result = Success(0)]
             /\ ppc' = [ppc EXCEPT ![q] = AfterExecutePayment(Success(0))]
        ELSE IF outcome.kind = "neterr"
        THEN /\ pay' = [pay EXCEPT ![q].initialized = TRUE, ![q].executed = TRUE,
                                   ![q].requests = @ + 1,
                                   ![q].result = Failure("fetch failed")]
             /\ ppc' = [ppc EXCEPT ![q] = AfterExecutePayment(Failure("fetch failed"))]
        ELSE /\ pay' = [pay EXCEPT ![q].initialized = TRUE, ![q].executed = TRUE,
                                   ![q].requests = @ + 1,
                                   ![q].required = Present(outcome.amount)]
             /\ ppc' = [ppc EXCEPT ![q] = "challenge"]
    /\ UNCHANGED <<now, tapVars, walletVars, limits, ledger, lock>>

\* executePayment on a 402 challenge: enter the profile's check-then-append
\* scope, re-validate the concrete amount and build the payment proof.
ExecutePaymentChallenge(q) ==
    /\ ppc[q] = "challenge"
    /\ lock = 0
    /\ LET required == Get(pay[q].required)
           validation == ValidateTransaction(required)
       IN
       IF ~validation.valid
       THEN /\ ledger' = Append(ledger, [timestamp |-> now, amount |-> required,
                                         status |-> "rejected"])
            /\ pay' = [pay EXCEPT ![q].recorded = TRUE,
                                  ![q].result = Failure(JoinErrors(validation.errors))]
            /\ ppc' = [ppc EXCEPT ![q] =
                            AfterExecutePayment(Failure(JoinErrors(validation.errors)))]
            /\ UNCHANGED lock
       ELSE /\ lock' = q
            /\ pay' = [pay EXCEPT ![q].proofs = Append(@, required)]
            /\ ppc' = [ppc EXCEPT ![q] = "retry"]
            /\ UNCHANGED ledger
    /\ UNCHANGED <<now, tapVars, walletVars, limits>>

\* executePayment: the single retry with the payment proof, and the ledger
\* entry that records its outcome.
ExecutePaymentRetry(q) ==
    /\ ppc[q] = "retry"
    /\ lock = q
    /\ \E outcome \in {"ok", "402", "neterr"} :
        LET required == Get(pay[q].required)
            result == IF outcome = "ok" THEN Success(required)
                      ELSE Failure("Payment rejected")
        IN
        /\ ledger' = Append(ledger, [timestamp |-> now, amount |-> required,
                                     status |-> IF outcome = "ok" THEN "approved"
                                                ELSE "failed"])
        /\ pay' = [pay EXCEPT ![q].requests = @ + 1, ![q].recorded = TRUE,
                              ![q].result = result]
        /\ ppc' = [ppc EXCEPT ![q] = AfterExecutePayment(result)]
    /\ lock' = 0
    /\ UNCHANGED <<now, tapVars, walletVars, limits>>

\* paymentRequest's promise settles: the result is handed to the caller.
PaymentReturn(q) ==
    /\ ppc[q] = "done"
    /\ ppc' = [ppc EXCEPT ![q] = "returned"]
    /\ pay' = [pay EXCEPT ![q] = NoPayment]
    /\ UNCHANGED <<now, tapVars, walletVars, limits, ledger, lock>>

\* The call's promise settles: its result is handed to the caller and its
\* locals are gone.
Return(p) ==
    /\ pc[p] \in Terminal
    /\ ~(pc[p] = "verified" /\ call[p].kind = "cli")
    /\ pc' = [pc EXCEPT ![p] = "idle"]
    /\ call' = [call EXCEPT ![p] = NoCall]
    /\ UNCHANGED <<now, keychain, agentFile, attestationFile, registry, entropy, calls, payVars, walletVars>>

\* The wall clock advances.
Tick ==
    /\ now < MaxTime
    /\ now' = now + 1
    /\ UNCHANGED <<tapVars, payVars, walletVars>>

\* --------------------------------------------------------- transferUSDC
\* ethers.ZeroAddress
ZeroAddress == "0x000"

\* Recipients a caller passes: undefined, the empty string, a malformed
\* string, a malformed string that spells "gas", a mixed-case address with a
\* wrong checksum, the zero address, and a valid address in lower case and in
\* checksum case.
Recipients ==
    {Absent} \cup {Present(r) : r \in {"", "nope", "0xgas", "0xaBc", "0x000", "0xabc", "0xAbC"}}

\* ethers.getAddress(recipient): the checksummed address, or a throw (Absent).
GetAddress(recipient) ==
    IF recipient \in {"0xabc", "0xAbC"} THEN Present("0xAbC")
    ELSE IF recipient = "0x000" THEN Present(ZeroAddress)
    ELSE Absent

\* amount > 100 ? 2 : 1
ConfirmationThreshold == 100

Confirmations_AlwaysOne(amount) == 1

Confirmations(amount) == IF amount > ConfirmationThreshold THEN 2 ELSE 1

\* Amounts a caller passes, on both sides of 0 and of the threshold.
TransferAmounts == {-1, 0, 1, ConfirmationThreshold, ConfirmationThreshold + 1}

\* ethers.parseEther('0.0001'), ETH balances counted in units of 0.00001 ETH.
MinGasRequired == 10
EthBalances == {0, MinGasRequired - 1, MinGasRequired, MinGasRequired + 1}

\* USDC decimals() and ethers.parseUnits(amount.toString(), decimals)
UsdcDecimals == 6
ParseUnits(amount, decimals) == amount * (10 ^ decimals)

\* Messages of the errors the provider, the contract call and tx.wait throw.
ProviderErrors ==
    {"insufficient funds for gas * price + value", "gas required exceeds allowance",
     "nonce too low", "replacement underpriced: nonce and gas", "network timeout"}

\* `Invalid recipient address: ${recipient}`
InvalidAddressMessage(recipient) ==
    IF recipient = "nope" THEN "Invalid recipient address: nope"
    ELSE IF recipient = "0xgas" THEN "Invalid recipient address: 0xgas"
    ELSE IF recipient = "0xaBc" THEN "Invalid recipient address: 0xaBc"
    ELSE "Invalid recipient address: "

\* String.prototype.includes (case-sensitive) on the messages of the model.
Includes(msg, needle) ==
    <<msg, needle>> \in
        {<<"insufficient funds for gas * price + value", "insufficient funds">>,
         <<"insufficient funds for gas * price + value", "gas">>,
         <<"gas required exceeds allowance", "gas">>,
         <<"nonce too low", "nonce">>,
         <<"replacement underpriced: nonce and gas", "nonce">>,
         <<"replacement underpriced: nonce and gas", "gas">>,
         <<"Invalid recipient address: 0xgas", "gas">>,
         <<"Insufficient ETH for gas fees. Please add ETH to your wallet.", "gas">>}

\* The catch block of transferUSDC: the message of the error it rethrows.
Sanitize(msg) ==
    IF Includes(msg, "insufficient funds") THEN "Insufficient funds for transfer"
    ELSE IF Includes(msg, "gas")
    THEN "Transaction failed due to gas issues. Please try again."
    ELSE IF Includes(msg, "nonce")
    THEN "Transaction conflict. Please wait and try again."
    ELSE "USDC transfer failed. Please check your balance and try again."

\* checksummedRecipient === ethers.ZeroAddress
IsZeroAddress_Never(address) == FALSE

IsZeroAddress(address) == address = ZeroAddress

\* The checks of transferUSDC that need no I/O, in their order: the message
\* of the first one that throws, if any.
ValidationError(recipient, amount) ==
    IF recipient = Absent \/ Get(recipient) = ""
    THEN Present("Invalid recipient: address is required")
    ELSE IF GetAddress(Get(recipient)) = Absent
    THEN Present(InvalidAddressMessage(Get(recipient)))
    ELSE IF IsZeroAddress(Get(GetAddress(Get(recipient))))
    THEN Present("Cannot send to zero address")
    ELSE IF amount <= 0 THEN Present("Amount must be greater than zero")
    ELSE Absent

NoTransfer ==
    [pc |-> "idle", n |-> 0, recipient |-> Absent, amount |-> 0,
     checksummed |-> Absent, ethBalance |-> Absent, thrown |-> Absent,
     submitted |-> <<>>, waited |-> 0, confirmed |-> FALSE, result |-> Absent]

\* An error thrown inside the try block: the catch rethrows it sanitized.
TransferFails(msg) ==
    [xfer EXCEPT !.pc = "done", !.thrown = Present(msg),
                 !.result = Present([ok |-> FALSE, txHash |-> Absent,
                                     message |-> Sanitize(msg)])]

\* transferUSDC(wallet, recipient, amount) down to its first await.
TransferValidate ==
    /\ xfer.pc = "idle"
    /\ xfer.n < MaxCalls
    /\ \E recipient \in Recipients, amount \in TransferAmounts :
        LET started == [xfer EXCEPT !.n = @ + 1, !.recipient = recipient,
                                    !.amount = amount]
            error == ValidationError(recipient, amount)
        IN
        IF error # Absent
        THEN xfer' = [started EXCEPT !.pc = "done", !.thrown = error,
                        !.result = Present([ok |-> FALSE, txHash |-> Absent,
                                            message |-> Sanitize(Get(error))])]
        ELSE xfer' = [started EXCEPT !.pc = "balance",
                        !.checksummed = GetAddress(Get(recipient))]
    /\ UNCHANGED <<now, tapVars, payVars>>

\* await this.provider.getBalance(wallet.address) and the gas check.
TransferGasCheck ==
    /\ xfer.pc = "balance"
    /\ \/ \E msg \in ProviderErrors : xfer' = TransferFails(msg)
       \/ \E ethBalance \in EthBalances :
            IF ethBalance < MinGasRequired
            THEN xfer' = [TransferFails(
                            "Insufficient ETH for gas fees. Please add ETH to your wallet.")
                          EXCEPT !.ethBalance = Present(ethBalance)]
            ELSE xfer' = [xfer EXCEPT !.pc = "decimals",
                                      !.ethBalance = Present(ethBalance)]
    /\ UNCHANGED <<now, tapVars, payVars>>

\* await this.usdcContract.decimals()
TransferDecimals ==
    /\ xfer.pc = "decimals"
    /\ \/ \E msg \in ProviderErrors : xfer' = TransferFails(msg)
       \/ xfer' = [xfer EXCEPT !.pc = "submit"]
    /\ UNCHANGED <<now, tapVars, payVars>>

\* await contractWithSigner.transfer(checksummedRecipient, amountInUnits)
TransferSubmit ==
    /\ xfer.pc = "submit"
    /\ \/ \E msg \in ProviderErrors : xfer' = TransferFails(msg)
       \/ xfer' = [xfer EXCEPT !.pc = "wait",
                      !.submitted = Append(@, [to |-> Get(xfer.checksummed),
                                               units |-> ParseUnits(xfer.amount, UsdcDecimals)])]
    /\ UNCHANGED <<now, tapVars, payVars>>

\* await tx.wait(confirmations) and the return of the hash.
TransferWait ==
    /\ xfer.pc = "wait"
    /\ LET confirmations == Confirmations(xfer.amount) IN
       \/ \E msg \in ProviderErrors :
            xfer' = [TransferFails(msg) EXCEPT !.waited = confirmations]
       \/ xfer' = [xfer EXCEPT !.pc = "done", !.waited = confirmations,
                      !.confirmed = TRUE,
                      !.result = Present([ok |-> TRUE,
                                          txHash |-> Present(xfer.submitted[1]),
                                          message |-> ""])]
    /\ UNCHANGED <<now, tapVars, payVars>>

\* The promise of transferUSDC settles.
TransferReturn ==
    /\ xfer.pc = "done"
    /\ xfer' = [NoTransfer EXCEPT !.n = xfer.n]
    /\ UNCHANGED <<now, tapVars, payVars>>

WalletInit == xfer = NoTransfer

PayInit ==
    /\ ledger = <<>>
    /\ lock = 0
    /\ ppc = [q \in Payers |-> "idle"]
    /\ pay = [q \in Payers |-> NoPayment]

TapInit ==
    /\ keychain = [wallet |-> Present(WalletPrivateKey), tap |-> Absent]
    /\ agentFile = Absent
    /\ attestationFile = Absent
    /\ registry = [agents |-> <<>>, challenges |-> 0]
    /\ entropy = 0
    /\ pc = [p \in Procs |-> "idle"]
    /\ call = [p \in Procs |-> NoCall]
    /\ calls = 0

Init ==
    /\ now = 0
    /\ TapInit
    /\ PayInit
    /\ WalletInit
    /\ limits = [maxTransactionAmount |-> 2, dailyLimit |-> 3, autoApproveUnder |-> 1]

Next ==
    \/ \E p \in Procs : Quiescent /\ VerifyIdentityStart(p)
    \/ \E p \in Procs : Quiescent /\ VerifyCommandStart(p)
    \/ \E p \in Procs : RegisterAgentKey(p)
    \/ \E p \in Procs : GetChallenge(p)
    \/ \E p \in Procs : RegisterWallet(p)
    \/ \E p \in Procs : OpenVerificationUrl(p)
    \/ \E p \in Procs : CompleteVerificationDemo(p)
    \/ \E p \in Procs : LogVerified(p)
    \/ \E p \in Procs : DisplayStatus(p)
    \/ \E p \in Procs : Return(p)
    \/ Tick

Spec == Init /\ [][Next]_vars

PaymentsInit ==
    /\ now = 0
    /\ TapInit
    /\ PayInit
    /\ WalletInit
    /\ limits \in LimitConfigs

PaymentsNext ==
    \/ \E q \in Payers : PaymentRequestValidate(q)
    \/ \E q \in Payers : ExecutePaymentRequest(q)
    \/ \E q \in Payers : ExecutePaymentChallenge(q)
    \/ \E q \in Payers : ExecutePaymentRetry(q)
    \/ \E q \in Payers : PaymentReturn(q)
    \/ Tick

\* Concurrent paymentRequest calls of one profile.
SpecPayments == PaymentsInit /\ [][PaymentsNext]_vars

\* paymentRequest calls of one profile made one after the other: a call starts
\* when no other call is in flight.
NoPaymentInFlight == \A q \in Payers : ppc[q] \in {"idle", "returned"}

SequentialPaymentsNext ==
    \/ \E q \in Payers : NoPaymentInFlight /\ PaymentRequestValidate(q)
    \/ \E q \in Payers : ExecutePaymentRequest(q)
    \/ \E q \in Payers : ExecutePaymentChallenge(q)
    \/ \E q \in Payers : ExecutePaymentRetry(q)
    \/ \E q \in Payers : PaymentReturn(q)
    \/ Tick

SpecSequentialPayments == PaymentsInit /\ [][SequentialPaymentsNext]_vars

\* Attestations a completed verification of the agent can have stored.
StoredAttestations(agentId) ==
    {BuildAttestation([level |-> lv, attestation_jwt |-> <<"jwt", agentId, lv>>,
                       issued_at |-> 0, expires_at |-> ex], DEFAULT_REGISTRY_URL) :
        lv \in TAPIdentityLevel, ex \in Times}

\* The profile a status query finds: fresh, registered, or registered and
\* verified, as one registerAgent and completeVerificationDemo leave it.
StatusInit ==
    /\ now = 0
    /\ PayInit
    /\ WalletInit
    /\ limits = [maxTransactionAmount |-> 2, dailyLimit |-> 3, autoApproveUnder |-> 1]
    /\ pc = [p \in Procs |-> "idle"]
    /\ call = [p \in Procs |-> NoCall]
    /\ calls = 0
    /\ \/ /\ keychain = [wallet |-> Present(WalletPrivateKey), tap |-> Absent]
          /\ agentFile = Absent
          /\ attestationFile = Absent
          /\ registry = [agents |-> <<>>, challenges |-> 0]
          /\ entropy = 0
       \/ /\ keychain = [wallet |-> Present(WalletPrivateKey),
                         tap |-> Present(ToHex(generateKeyPair(0).privateKey))]
          /\ agentFile = SaveAgent(
                    [agentId |-> RegistrationData(1).agent.id,
                     keyId |-> RegistrationData(1).agent.keys[1].key_id,
                     publicKey |-> generateKeyPair(0).publicKey, registeredAt |-> 0],
                    Caip10Address(WalletAddress), DefaultName, DEFAULT_REGISTRY_URL)
          /\ attestationFile \in
                {Absent} \cup {SaveAttestation(a) :
                                a \in StoredAttestations(RegistrationData(1).agent.id)}
          /\ registry = [agents |-> <<[id |-> RegistrationData(1).agent.id,
                                       public_key |-> generateKeyPair(0).publicKey,
                                       wallet_address |-> Caip10Address(WalletAddress)]>>,
                         challenges |-> 1]
          /\ entropy = 1

StatusNext ==
    \/ \E p \in Procs : Quiescent /\ GetTapStatusStart(p)
    \/ \E p \in Procs : Quiescent /\ TapStatusCommandStart(p)
    \/ \E p \in Procs : GetTapStatusReputation(p)
    \/ \E p \in Procs : TapStatusCommandReputation(p)
    \/ \E p \in Procs : Quiescent /\ GetReputationCall(p)
    \/ \E p \in Procs : Return(p)
    \/ Tick

\* Status queries (getTapStatus, tapStatusCommand) on a stored profile.
SpecStatus == StatusInit /\ [][StatusNext]_vars

\* Verification attempts of one profile that overlap: a call may start while
\* another is in flight (two verifyIdentity tool calls).
ConcurrentNext ==
    \/ \E p \in Procs : VerifyIdentityStart(p)
    \/ \E p \in Procs : RegisterAgentKey(p)
    \/ \E p \in Procs : GetChallenge(p)
    \/ \E p \in Procs : RegisterWallet(p)
    \/ \E p \in Procs : CompleteVerificationDemo(p)
    \/ \E p \in Procs : Return(p)
    \/ Tick

SpecConcurrent == Init /\ [][ConcurrentNext]_vars

TransferNext ==
    \/ TransferValidate
    \/ TransferGasCheck
    \/ TransferDecimals
    \/ TransferSubmit
    \/ TransferWait
    \/ TransferReturn

\* Calls of BalanceChecker.transferUSDC, one after the other.
SpecTransfer == Init /\ [][TransferNext]_vars

\* No call of any tool is running, and the run has not used the tools of
\* the other kind: the payment tool and the other tools share no state, so a
\* run calls either the one or the others.
PaymentRun == Quiescent /\ NoPaymentInFlight /\ calls = 0
ToolRun == Quiescent /\ \A q \in Payers : ppc[q] = "idle"

ToolsNext ==
    \/ \E q \in Payers : PaymentRun /\ PaymentRequestValidate(q)
    \/ \E q \in Payers : ExecutePaymentRequest(q)
    \/ \E q \in Payers : ExecutePaymentChallenge(q)
    \/ \E q \in Payers : ExecutePaymentRetry(q)
    \/ \E q \in Payers : PaymentReturn(q)
    \/ \E p \in Procs : ToolRun /\ SimpleToolCall(p)
    \/ \E p \in Procs : ToolRun /\ VerifyIdentityStart(p)
    \/ \E p \in Procs : RegisterAgentKey(p)
    \/ \E p \in Procs : GetChallenge(p)
    \/ \E p \in Procs : RegisterWallet(p)
    \/ \E p \in Procs : CompleteVerificationDemo(p)
    \/ \E p \in Procs : ToolRun /\ GetTapStatusStart(p)
    \/ \E p \in Procs : GetTapStatusReputation(p)
    \/ \E p \in Procs : Return(p)

\* Calls of the seven MCP tools, one after the other.
SpecTools == Init /\ [][ToolsNext]_vars

\* ================================================================ claims
\* Requests of one call that went to a given endpoint.
SentTo(p, endpoint) == {i \in 1..Len(call[p].sent) : call[p].sent[i].endpoint = endpoint}
LastSentTo(p, endpoint) ==
    /\ call[p].sent # <<>>
    /\ call[p].sent[Len(call[p].sent)].endpoint = endpoint
Accepted(optResponse) ==
    optResponse # Absent /\ Get(optResponse).delivered /\ Get(optResponse).ok
Rejected(optResponse) ==
    optResponse # Absent /\ Get(optResponse).delivered /\ ~Get(optResponse).ok

\* C1: registerAgent calls saveAgent only in the step in which the registry
\* answered the register-wallet request with a 2xx response; a step that ends
\* registerAgent in failure (challenge or registration) calls saveAgent zero
\* times and leaves the stored Agent Identity as it was.
C1_SaveAgentOnlyAfter2xx ==
    [][/\ (agentFile' # agentFile) =>
            \E p \in Procs : /\ pc[p] = "register"
                             /\ Accepted(call'[p].response)
                             /\ call'[p].nSaveAgent = 1
       /\ \A p \in Procs :
            /\ (call'[p].nSaveAgent > call[p].nSaveAgent) =>
                    (pc[p] = "register" /\ Accepted(call'[p].response))
            /\ (pc[p] \in {"challenge", "register"} /\ pc'[p] = "failed") =>
                    (agentFile' = agentFile /\ call'[p].nSaveAgent = 0)]_vars

\* C1 witness: a registration was refused while an earlier identity is stored.
C1_Witness ==
    \E p \in Procs :
        /\ pc[p] = "failed"
        /\ LastSentTo(p, "/v1/agents/register-wallet")
        /\ Rejected(call[p].response)
        /\ agentFile # Absent
        /\ call[p].nSaveAgent = 0

\* C2: whenever no call is in flight and an Agent Identity is stored, the
\* secure store's TAP private key is the counterpart of the identity's
\* public key.
C2_StoredKeyMatchesIdentity ==
    ((\A p \in Procs : ~InFlight(p)) /\ agentFile # Absent) =>
        /\ keychain["tap"] # Absent
        /\ \E k \in 1..entropy :
            /\ Get(keychain["tap"]) = ToHex(k)
            /\ Get(agentFile).publicKey = PublicKeyOf(k)

\* C3: one call sends at most one challenge request and at most one
\* register-wallet request, and a non-2xx registration response ends the call
\* with the registry's detail as the error message (the status-text fallback
\* when the body carries no detail).
C3_NoRetryDetailVerbatim ==
    \A p \in Procs :
        /\ Cardinality(SentTo(p, "/v1/challenge")) <= 1
        /\ Cardinality(SentTo(p, "/v1/agents/register-wallet")) <= 1
        /\ (LastSentTo(p, "/v1/agents/register-wallet") /\ Rejected(call[p].response)) =>
            /\ pc[p] = "failed"
            /\ call[p].error # Absent
            /\ Truthy(Get(call[p].response).detail) =>
                    Get(call[p].error) = Get(Get(call[p].response).detail)
            /\ ~Truthy(Get(call[p].response).detail) =>
                    Get(call[p].error) = "Registration failed: Conflict"

\* C3 witness: a refused registration whose body carries a detail.
C3_Witness ==
    \E p \in Procs :
        /\ pc[p] = "failed"
        /\ LastSentTo(p, "/v1/agents/register-wallet")
        /\ Rejected(call[p].response)
        /\ Truthy(Get(call[p].response).detail)
        /\ Cardinality(SentTo(p, "/v1/challenge")) = 1

\* C4: every accepted registration carries a key pair of its own, and when
\* registerAgent has returned, the registry's newest record, the stored Agent
\* Identity and the stored TAP key are those of that call.
C4_NonIdempotent ==
    /\ \A i, j \in 1..Len(registry.agents) :
            i # j => /\ registry.agents[i].public_key # registry.agents[j].public_key
                     /\ registry.agents[i].id # registry.agents[j].id
    /\ \A p \in Procs :
        pc[p] = "verify" =>
            /\ Cardinality(SentTo(p, "/v1/agents/register-wallet")) = 1
            /\ registry.agents[Len(registry.agents)].public_key = Get(call[p].publicKey)
            /\ Get(agentFile).agentId = registry.agents[Len(registry.agents)].id
            /\ Get(agentFile).publicKey = PublicKeyOf(call[p].privateKey)
            /\ keychain["tap"] = Present(ToHex(call[p].privateKey))

\* C4 witness: the second successful registerAgent has just returned.
C4_Witness ==
    \E p \in Procs : pc[p] = "verify" /\ Len(registry.agents) = 2

\* C5: the stored Attestation changes only in a step in which the registry
\* accepted the completion, and then becomes the attestation built from the
\* response; a refused completion yields a failed result with the registry's
\* reason, calls saveAttestation zero times and leaves the stored Attestation
\* as it was.
C5_AttestationIffAccepted ==
    [][/\ (attestationFile' # attestationFile) =>
            \E p \in Procs : /\ pc[p] = "verify" /\ pc'[p] = "verified"
                             /\ Accepted(call'[p].response)
       /\ \A p \in Procs :
            /\ (pc[p] = "verify" /\ pc'[p] # "verify" /\ Rejected(call'[p].response)) =>
                /\ pc'[p] = "verification_failed"
                /\ attestationFile' = attestationFile
                /\ call'[p].nSaveAttestation = 0
                /\ Get(call'[p].verification).status = "failed"
                /\ Get(call'[p].verification).error =
                        IF Truthy(Get(call'[p].response).detail)
                        THEN Get(Get(call'[p].response).detail)
                        ELSE "Verification failed"
            /\ (pc[p] = "verify" /\ pc'[p] # "verify" /\ Accepted(call'[p].response)) =>
                /\ pc'[p] = "verified"
                /\ call'[p].nSaveAttestation = 1
                /\ attestationFile' =
                    Present([identityLevel |-> Get(call'[p].identity).level,
                             attestationJwt |-> Get(call'[p].identity).attestation_jwt,
                             issuedAt |-> Get(call'[p].identity).issued_at,
                             expiresAt |-> Get(call'[p].identity).expires_at,
                             issuer |-> DEFAULT_REGISTRY_URL])]_vars

\* C5 witness: a completion was refused while an earlier attestation is stored.
C5_Witness ==
    \E p \in Procs :
        /\ pc[p] = "verification_failed"
        /\ Rejected(call[p].response)
        /\ attestationFile # Absent
        /\ call[p].nSaveAttestation = 0

\* C6: every stored Attestation satisfies expiresAt > issuedAt.
C6_ExpiresAfterIssued ==
    attestationFile # Absent =>
        Get(attestationFile).expiresAt > Get(attestationFile).issuedAt

\* The agent a registry token was issued for.
TokenSubject(attestationJwt) == attestationJwt[2]

\* C7: whenever no call is in flight and the status is verified (on a
\* well-formed attestation, expiresAt > issuedAt), the stored Attestation was
\* issued for the stored Agent Identity.
C7_VerifiedOnlyForStoredIdentity ==
    ((\A p \in Procs : ~InFlight(p)) /\ GetStatus.verified
        /\ Get(attestationFile).expiresAt > Get(attestationFile).issuedAt) =>
        /\ agentFile # Absent
        /\ TokenSubject(Get(attestationFile).attestationJwt) = Get(agentFile).agentId
\* Calls between a passed limit check and the ledger entry of their payment.
PassedCheckNotRecorded(q) ==
    /\ ppc[q] \in {"execute", "challenge", "retry"}
    /\ pay[q].checkedTotal # Absent
    /\ ~pay[q].recorded

\* C8: a call that declares a maximum amount reaches the payment handler
\* (initialise, execute, any request) only after validateTransaction has run
\* on the declared amount and accepted it.
C8_ValidatedBeforeAnyNetworkCall ==
    \A q \in Payers :
        (pay[q].maxAmount # Absent
            /\ (pay[q].initialized \/ pay[q].executed \/ pay[q].requests > 0)) =>
        pay[q].validated

\* C9: a call that declares a positive maximum never builds a payment proof
\* for more than that maximum.
C9_NeverPaysMoreThanMax ==
    \A q \in Payers :
        (pay[q].maxAmount # Absent /\ Get(pay[q].maxAmount) > 0) =>
            \A i \in 1..Len(pay[q].proofs) : pay[q].proofs[i] <= Get(pay[q].maxAmount)

\* C10: no two calls in flight have both passed the daily-limit check against
\* the same daily total when that total plus both amounts exceeds dailyLimit.
C10_NoStaleDoublePass ==
    \A q1, q2 \in Payers :
        (q1 # q2 /\ PassedCheckNotRecorded(q1) /\ PassedCheckNotRecorded(q2)
            /\ pay[q1].checkedTotal = pay[q2].checkedTotal) =>
        Get(pay[q1].checkedTotal) + Get(pay[q1].maxAmount) + Get(pay[q2].maxAmount)
            <= limits.dailyLimit

\* C11: no payment call sends more than two requests or builds more than one
\* payment proof; the second request is the retry that carries the proof, and
\* the step that sends it ends the call and records its outcome: a success
\* when the retry is answered with success (ledger entry approved), "Payment
\* rejected" on a second 402 or any other non-success (ledger entry failed).
C11_SingleRetry ==
    [][\A q \in Payers :
        /\ pay'[q].requests <= 2
        /\ Len(pay'[q].proofs) <= 1
        /\ pay'[q].requests = 2 => (Len(pay'[q].proofs) = 1 /\ ppc'[q] = "done")
        /\ pay'[q].requests > pay[q].requests =>
                pay'[q].requests = pay[q].requests + 1
        /\ (ppc[q] = "retry" /\ ppc'[q] # "retry") =>
            /\ pay'[q].requests = 2
            /\ ppc'[q] = "done"
            /\ Len(ledger') = Len(ledger) + 1
            /\ pay'[q].result =
                    IF ledger'[Len(ledger')].status = "approved"
                    THEN Success(Get(pay[q].required))
                    ELSE Failure("Payment rejected")]_vars

\* C11 witness: the retry of a call was refused.
C11_Witness ==
    \E q \in Payers :
        /\ ppc[q] = "done"
        /\ pay[q].requests = 2
        /\ Len(pay[q].proofs) = 1
        /\ ledger # <<>> /\ ledger[Len(ledger)].status = "failed"
        /\ pay[q].result = Failure("Payment rejected")

\* C12: a verifyAgent call whose request failed at the network level does not
\* throw and answers valid = false.
C12_VerifyAgentNeverThrows ==
    \A p \in Procs :
        (call[p].lookup # Absent /\ ~Get(call[p].response).delivered) =>
            /\ ~Get(call[p].lookup).thrown
            /\ ~Get(call[p].lookup).valid

\* A status query whose reputation lookup failed: transport error, non-2xx,
\* or valid = false.
LookupFailed(p) ==
    /\ call[p].kind \in {"mcp_status", "cli_status"}
    /\ call[p].lookup # Absent
    /\ Get(call[p].lookup).thrown \/ ~Get(call[p].lookup).valid

\* C13: a status query whose reputation lookup failed still ends in success
\* (getTapStatus returns success = true, tapStatusCommand completes), with the
\* verified value getStatus gave it, the agentId, identityLevel and
\* attestationExpires of the stored profile, and no reputationScore.
C13_LookupFailureSwallowed ==
    \A p \in Procs :
        (pc[p] = "status_done" /\ LookupFailed(p)) =>
            LET answer == Get(call[p].tapStatus) IN
            /\ call[p].tapStatus # Absent
            /\ answer.success
            /\ answer.verified = Get(call[p].status).verified
            /\ answer.agentId = GetStatus.agentId
            /\ answer.identityLevel = GetStatus.identityLevel
            /\ answer.attestationExpires = GetStatus.attestationExpires
            /\ answer.reputationScore = Absent

\* C13 witness: getTapStatus answered verified after its lookup hit a transport
\* error.
C13_Witness ==
    \E p \in Procs :
        /\ pc[p] = "status_done"
        /\ call[p].kind = "mcp_status"
        /\ call[p].lookup # Absent
        /\ ~Get(call[p].response).delivered
        /\ Get(call[p].tapStatus).verified

\* C14: on a fresh profile, the step in which registerAgent succeeds leaves
\* the status verified = false with the registered agentId, and the step in
\* which completeVerificationDemo(agentId, "kyc") then succeeds leaves the
\* status verified = true with identityLevel = "kyc".
C14_ScenarioA ==
    [][\A p \in Procs :
        /\ (pc[p] = "register" /\ pc'[p] = "verify"
                /\ agentFile = Absent /\ attestationFile = Absent) =>
            /\ ~GetStatus'.verified
            /\ GetStatus'.agentId = Present(Get(call'[p].registration).agentId)
        /\ (pc[p] = "verify" /\ pc'[p] = "verified" /\ call[p].level = "kyc"
                /\ Len(registry.agents) = 1 /\ attestationFile = Absent) =>
            /\ GetStatus'.verified
            /\ GetStatus'.identityLevel = Present("kyc")]_vars

\* The order in which one attempt talks to the registry.
ProtocolOrder ==
    <<"/v1/challenge", "/v1/agents/register-wallet", "/v1/agents/{agentId}/verify-demo">>

\* The steps of an attempt: key generated (UNREGISTERED), challenge received
\* (CHALLENGE_ISSUED), signed and registered (WALLET_SIGNED, REGISTERED, with
\* the completion pending), VERIFIED, or FAILED from any step.
AttemptSteps ==
    {<<"idle", "keygen">>, <<"keygen", "challenge">>, <<"challenge", "register">>,
     <<"register", "verify">>, <<"verify", "verified">>,
     <<"challenge", "failed">>, <<"register", "failed">>, <<"verify", "failed">>,
     <<"verify", "verification_failed">>,
     <<"idle", "already_verified">>, <<"idle", "kept">>,
     <<"verified", "display">>, <<"display", "complete">>,
     <<"verified", "failed">>, <<"display", "failed">>}

\* C15: an attempt moves only forward through challenge, signature and
\* registration, completion, or to failure from any step: its requests go out in
\* protocol order, the registration carries the wallet's signature over the
\* challenge message the registry issued to this attempt, the completion is
\* sent only after registerAgent stored the identity and names the agentId it
\* returned, and a failed attempt does nothing further before it returns.
C15_AttemptOrder ==
    [][\A p \in Procs :
        /\ pc'[p] # pc[p] => (<<pc[p], pc'[p]>> \in AttemptSteps \/ pc'[p] = "idle")
        /\ Len(call'[p].sent) <= 3
        /\ \A i \in 1..Len(call'[p].sent) : call'[p].sent[i].endpoint = ProtocolOrder[i]
        /\ Len(call'[p].sent) >= 2 =>
            /\ call'[p].siweMessage # Absent
            /\ Get(call'[p].siweMessage)[3] \in 1..registry'.challenges
            /\ call'[p].sent[2].body.wallet_message = Get(call'[p].siweMessage)
            /\ call'[p].sent[2].body.wallet_signature =
                    SignMessage(WalletPrivateKey, Get(call'[p].siweMessage))
        /\ Len(call'[p].sent) = 3 =>
            /\ call'[p].registration # Absent
            /\ call'[p].nSaveAgent = 1
            /\ call'[p].sent[3].body.agentId = Get(call'[p].registration).agentId
            /\ \E i \in 1..Len(registry'.agents) :
                    /\ registry'.agents[i].id = call'[p].sent[3].body.agentId
                    /\ registry'.agents[i].public_key = Get(call'[p].publicKey)
        /\ pc[p] \in {"failed", "verification_failed"} =>
            /\ pc'[p] \in {pc[p], "idle"}
            /\ UNCHANGED <<keychain, agentFile, attestationFile, registry>>]_vars

\* C15 witness: an attempt went through all three exchanges and is verified.
C15_Witness ==
    \E p \in Procs :
        /\ pc[p] = "verified"
        /\ Len(call[p].sent) = 3
        /\ call[p].sent[3].body.agentId = Get(call[p].registration).agentId

\* What one request of a call may carry: public values only.
PublicPayload(locals, request) ==
    LET body == request.body IN
    IF request.endpoint = "/v1/challenge"
    THEN /\ DOMAIN body = {"wallet_address", "chain_id"}
         /\ body.wallet_address = Caip10Address(WalletAddress)
         /\ body.chain_id = CHAIN_ID
    ELSE IF request.endpoint = "/v1/agents/register-wallet"
    THEN /\ DOMAIN body = {"wallet_address", "name", "public_key", "algorithm",
                           "wallet_signature", "wallet_message"}
         /\ body.wallet_address = Caip10Address(WalletAddress)
         /\ body.name = locals.name
         /\ body.name # WalletPrivateKey
         /\ body.public_key = PublicKeyOf(locals.privateKey)
         /\ body.algorithm = "ed25519"
         /\ body.wallet_signature = <<"sig", WalletAddress, Get(locals.siweMessage)>>
         /\ body.wallet_message = Get(locals.siweMessage)
    ELSE /\ DOMAIN body = {"agentId", "level"}
         /\ body.level \in TAPIdentityLevel

\* The stored records hold public values only.
PublicRecords ==
    /\ agentFile # Absent =>
        /\ DOMAIN Get(agentFile) = {"agentId", "keyId", "publicKey", "registeredAt",
                                    "walletAddress", "name", "registryUrl"}
        /\ \E k \in 1..entropy : Get(agentFile).publicKey = PublicKeyOf(k)
        /\ Get(agentFile).walletAddress = Caip10Address(WalletAddress)
        /\ Get(agentFile).name = DefaultName
        /\ Get(agentFile).registryUrl = DEFAULT_REGISTRY_URL
    /\ attestationFile # Absent =>
        DOMAIN Get(attestationFile) =
            {"identityLevel", "attestationJwt", "issuedAt", "expiresAt", "issuer"}

\* C16: the secure store has a wallet slot and a TAP slot; the wallet slot
\* always holds the wallet key, the TAP slot is written only by registerAgent
\* and only with the key it has just generated; every request carries just the
\* address, name, TAP public key, algorithm tag, wallet signature and challenge
\* message (or the agentId and level), and the Credential Store records hold
\* no key but the public one.
C16_KeysStayInSecureStore ==
    [][/\ DOMAIN keychain' = {"wallet", "tap"}
       /\ keychain'["wallet"] = Present(WalletPrivateKey)
       /\ keychain' # keychain =>
            \E p \in Procs :
                /\ pc[p] = "keygen"
                /\ call'[p].privateKey = entropy'
                /\ entropy' = entropy + 1
                /\ keychain' = [keychain EXCEPT !["tap"] =
                                    Present(ToHex(call'[p].privateKey))]
       /\ \A p \in Procs : \A i \in 1..Len(call'[p].sent) :
                PublicPayload(call'[p], call'[p].sent[i])
       /\ PublicRecords']_vars

\* C16 witness: a registration went out and its identity is stored while the
\* secure store holds both keys.
C16_Witness ==
    \E p \in Procs :
        /\ pc[p] = "verify"
        /\ Len(call[p].sent) = 2
        /\ agentFile # Absent
        /\ keychain["tap"] = Present(ToHex(call[p].privateKey))
        /\ keychain["wallet"] = Present(WalletPrivateKey)

\* An attestation is stored and the clock has not passed its expiresAt.
Unexpired == attestationFile # Absent /\ now <= Get(attestationFile).expiresAt

ApprovedInWindow ==
    {i \in 1..Len(ledger) :
        ledger[i].status = "approved" /\ ledger[i].timestamp > now - WindowTicks}

RECURSIVE AmountOf(_)
AmountOf(entries) ==
    IF entries = {} THEN 0
    ELSE LET i == CHOOSE j \in entries : TRUE
         IN ledger[i].amount + AmountOf(entries \ {i})

\* validateTransaction(a) answers as claimed in the current state.
ValidatesAsClaimed(a) ==
    LET validation == ValidateTransaction(a)
        invalid == \/ a <= 0
                   \/ a > limits.maxTransactionAmount
                   \/ AmountOf(ApprovedInWindow) + a > limits.dailyLimit
    IN /\ validation.valid <=> ~invalid
       /\ validation.autoApprove <=> (~invalid /\ a <= limits.autoApproveUnder)

C19_LastAttemptWins ==
    \A p1, p2 \in Procs :
        (p1 # p2 /\ pc[p1] = "verified" /\ pc[p2] = "verified"
            /\ \A p \in Procs : ~InFlight(p)) =>
        \E p \in {p1, p2} :
            /\ attestationFile = Present(BuildAttestation(Get(call[p].identity),
                                                          DEFAULT_REGISTRY_URL))
            /\ Get(agentFile).agentId = Get(call[p].registration).agentId
            /\ Get(agentFile).publicKey = Get(call[p].publicKey)
            /\ keychain["tap"] = Present(ToHex(call[p].privateKey))

\* C20: a call that declares a maximum amount of 0 or less never gets to the
\* payment handler: validateTransaction runs on the declared amount, the call
\* ends with "amount must be positive", and it sends no request and builds no
\* payment proof.
C20_NonPositiveMaxRejected ==
    \A q \in Payers :
        (pay[q].maxAmount # Absent /\ Get(pay[q].maxAmount) <= 0) =>
            /\ pay[q].validated
            /\ ppc[q] = "done"
            /\ pay[q].result = Failure("amount must be positive")
            /\ ~pay[q].initialized /\ ~pay[q].executed
            /\ pay[q].requests = 0
            /\ pay[q].proofs = <<>>

\* The preconditions of a transfer, stated on the arguments and the balance
\* read: a non-empty recipient that is a valid address other than the zero
\* address, a positive amount, and enough ETH for gas.
PreconditionsHold(t) ==
    /\ t.recipient # Absent
    /\ Get(t.recipient) # ""
    /\ GetAddress(Get(t.recipient)) # Absent
    /\ Get(GetAddress(Get(t.recipient))) # ZeroAddress
    /\ t.amount > 0
    /\ t.ethBalance # Absent
    /\ Get(t.ethBalance) >= MinGasRequired

\* C21: transferUSDC submits a token transfer only when every precondition
\* holds, and then one transfer of the amount in token units to the
\* checksummed recipient; a call that ended with a precondition not met has
\* sent no transaction and has failed.
C21_TransferOnlyWhenValid ==
    /\ xfer.submitted # <<>> =>
        /\ PreconditionsHold(xfer)
        /\ xfer.submitted = <<[to |-> Get(GetAddress(Get(xfer.recipient))),
                               units |-> xfer.amount * 1000000]>>
    /\ (xfer.pc = "done" /\ ~PreconditionsHold(xfer)) =>
        /\ xfer.submitted = <<>>
        /\ ~Get(xfer.result).ok
        /\ Get(xfer.result).txHash = Absent

C21_Witness ==
    /\ xfer.pc = "wait"
    /\ xfer.submitted # <<>>
    /\ xfer.recipient = Present("0xabc")
    /\ xfer.n = 2

\* The message the failed check of a call threw, if a check failed.
OwnMessage(t) ==
    IF t.recipient = Absent \/ Get(t.recipient) = ""
    THEN Present("Invalid recipient: address is required")
    ELSE IF GetAddress(Get(t.recipient)) = Absent
    THEN Present(InvalidAddressMessage(Get(t.recipient)))
    ELSE IF Get(GetAddress(Get(t.recipient))) = ZeroAddress
    THEN Present("Cannot send to zero address")
    ELSE IF t.amount <= 0 THEN Present("Amount must be greater than zero")
    ELSE IF t.ethBalance # Absent /\ Get(t.ethBalance) < MinGasRequired
    THEN Present("Insufficient ETH for gas fees. Please add ETH to your wallet.")
    ELSE Absent

\* C22: a call of transferUSDC that ended because one of its checks failed
\* fails towards its caller with the message of that check.
C22_ValidationMessageReported ==
    (xfer.pc = "done" /\ OwnMessage(xfer) # Absent) =>
        /\ ~Get(xfer.result).ok
        /\ Get(xfer.result).message = Get(OwnMessage(xfer))

\* What the caller is told for each provider error, by the first of
\* 'insufficient funds', 'gas', 'nonce' the error's message contains.
SanitizedAsClaimed(msg) ==
    CASE msg = "insufficient funds for gas * price + value" ->
            "Insufficient funds for transfer"
      [] msg \in {"gas required exceeds allowance",
                  "replacement underpriced: nonce and gas"} ->
            "Transaction failed due to gas issues. Please try again."
      [] msg = "nonce too low" ->
            "Transaction conflict. Please wait and try again."
      [] OTHER -> "USDC transfer failed. Please check your balance and try again."

\* C23: a call of transferUSDC that returned a hash has submitted the
\* transfer and waited for its confirmation, for 2 confirmations when the
\* amount is above 100 and for 1 otherwise; a call in which a provider call
\* (the submission and the wait among them) failed returns no hash and fails
\* with the sanitized message chosen by the first match among
\* 'insufficient funds', 'gas', 'nonce', else the generic one.
C23_HashAfterConfirmation ==
    xfer.pc = "done" =>
        /\ Get(xfer.result).ok <=> Get(xfer.result).txHash # Absent
        /\ Get(xfer.result).ok =>
            /\ Len(xfer.submitted) = 1
            /\ Get(xfer.result).txHash = Present(xfer.submitted[1])
            /\ xfer.confirmed
            /\ xfer.waited = IF xfer.amount > 100 THEN 2 ELSE 1
        /\ (xfer.thrown # Absent /\ Get(xfer.thrown) \in ProviderErrors) =>
            /\ ~Get(xfer.result).ok
            /\ ~xfer.confirmed
            /\ Get(xfer.result).message = SanitizedAsClaimed(Get(xfer.thrown))

C23_Witness ==
    /\ xfer.pc = "done"
    /\ Get(xfer.result).ok
    /\ xfer.amount = 101
    /\ xfer.waited = 2

C27_FailureOnlyWithoutAttestation ==
    \A p \in Procs :
        (call[p].kind = "cli" /\ pc[p] \in {"failed", "verification_failed"}) =>
            call[p].nSaveAttestation = 0

\* C26: the step in which verifyIdentity returns success with status
\* 'verified' reports the identityLevel of the Attestation that step
\* persisted, and (on a well-formed attestation, expiresAt > issuedAt) leaves
\* the status verified at that level.
C26_ReportedLevelIsPersistedLevel ==
    [][\A p \in Procs :
        (call'[p].kind = "mcp" /\ pc[p] = "verify" /\ pc'[p] = "verified") =>
            /\ Get(call'[p].result).success
            /\ Get(call'[p].result).status = "verified"
            /\ call'[p].nSaveAttestation = 1
            /\ attestationFile' # Absent
            /\ Get(call'[p].result).identityLevel =
                    Present(Get(attestationFile').identityLevel)
            /\ Get(attestationFile').expiresAt > Get(attestationFile').issuedAt =>
                /\ GetStatus'.verified
                /\ GetStatus'.identityLevel = Get(call'[p].result).identityLevel]_vars

\* The kinds of call that are MCP tools on the process side.
ToolKinds == {"mcp", "mcp_status"} \cup DOMAIN SimpleTools

\* C28: every call of an MCP tool that has ended has resolved with a result,
\* and when a collaborator threw, the result is success = false with the
\* message of the error thrown.
C28_ToolsAlwaysResolve ==
    /\ \A p \in Procs :
        (pc[p] \in Terminal /\ call[p].kind \in ToolKinds) =>
            IF call[p].kind = "mcp_status"
            THEN /\ call[p].tapStatus # Absent
                 /\ call[p].error # Absent =>
                        /\ ~Get(call[p].tapStatus).success
                        /\ Get(call[p].tapStatus).message = Get(call[p].error)
            ELSE /\ call[p].result # Absent
                 /\ call[p].error # Absent =>
                        /\ ~Get(call[p].result).success
                        /\ Get(call[p].result).error = call[p].error
    /\ \A q \in Payers :
        ppc[q] = "done" =>
            /\ pay[q].result # Absent
            /\ ~pay[q].initialized => ~Get(pay[q].result).success
            /\ ~Get(pay[q].result).success => Get(pay[q].result).error # ""

\* C28 witness: verifyIdentity ended after a request of registerAgent failed
\* at the network level, and returned the error's message.
C28_Witness ==
    \E p \in Procs :
        /\ pc[p] = "failed"
        /\ call[p].kind = "mcp"
        /\ call[p].error = Present(FetchFailedMessage)
        /\ Get(call[p].result).error = Present(FetchFailedMessage)

\* C29: a getReputation call returns and does not throw; what it returns is
\* non-null only if an Agent Identity and an Attestation are stored and the
\* registry answered its verify request with valid = true; when either record
\* is missing it returns null and has sent no request; and getTapStatus gets
\* to its reputation lookup only with a status that is verified and carries
\* an agentId.
C29_ReputationOnlyWhenValid ==
    \A p \in Procs :
        /\ (pc[p] = "status_done" /\ call[p].kind = "reputation") =>
            /\ call[p].reputation # Absent
            /\ call[p].error = Absent
        /\ (pc[p] = "status_done" /\ call[p].reputation # Absent) =>
            /\ Get(call[p].reputation) # Absent =>
                /\ agentFile # Absent /\ attestationFile # Absent
                /\ Len(call[p].sent) = 1
                /\ call[p].sent[1].endpoint = "/v1/verify"
                /\ Accepted(call[p].response)
                /\ ~Get(call[p].lookup).thrown
                /\ Get(call[p].lookup).valid
            /\ (agentFile = Absent \/ attestationFile = Absent) =>
                /\ Get(call[p].reputation) = Absent
                /\ call[p].sent = <<>>
                /\ call[p].lookup = Absent
        /\ (call[p].kind = "mcp_status"
                /\ (pc[p] = "reputation" \/ call[p].reputation # Absent
                        \/ call[p].sent # <<>>)) =>
            /\ Get(call[p].status).verified
            /\ Get(call[p].status).agentId # Absent

\* C29 witness: getReputation was called with an identity stored and no
\* attestation, and returned null without a request.
C29_Witness ==
    \E p \in Procs :
        /\ pc[p] = "status_done"
        /\ call[p].kind = "reputation"
        /\ agentFile # Absent /\ attestationFile = Absent
        /\ call[p].reputation = Present(Absent)
        /\ call[p].sent = <<>>
====
